---- MODULE Spec2Model ----
(***************************************************************************)
(* Model of the financial analysis pipeline:                               *)
(*   processor.process_data        (merge, forward-fill, indicators)       *)
(*   signals.detect_golden_crossover / signals.detect_death_cross          *)
(*   models.PriceData and the price loop of data_fetcher.fetch_stock_data  *)
(*   database.save_ticker / save_daily_metrics / save_signal_events        *)
(*                                                                         *)
(* Numbers.  Closes and book values are integers (floats holding whole     *)
(* numbers).  A quotient computed by pandas (a rolling mean, a ratio) is   *)
(* kept as the exact fraction [num, den]; two fractions are compared by    *)
(* cross-multiplication (RatEq).  None and float NaN are kept apart,       *)
(* because the code tests "is not None" and NaN is not None.               *)
(***************************************************************************)
EXTENDS Integers, Sequences, FiniteSets, TLC

VARIABLES pc, prices, fundamentals, status, df, golden, death,
          raw, pos, result, store, calls, last

\* the state of fetch_stock_data: the rows of stock.history(), the number of
\* rows the price loop has consumed, and the result dict with its warnings
fetchVars == <<raw, pos, result>>

\* the state of the database: its three tables, the number of save calls
\* made, and the arguments of the latest one
storeVars == <<store, calls, last>>

vars == <<pc, prices, fundamentals, status, df, golden, death,
          raw, pos, result, store, calls, last>>

(* ------------------------------ bounds --------------------------------- *)
\* price dates are 1..MaxDate, as_of dates are 0..MaxDate
MaxDate == 3
\* longest fundamentals list drawn for the short price histories
MaxFunds == 2
\* a long price history runs this many rows past each rolling window
LongExtra == 1
\* longest frame handed to the crossover detectors
MaxRows == 5
\* rows of one price history handed to the price loop
MaxRawRows == 3
\* save calls made on one database
MaxCalls == 2

(* --------------------------- program constants ------------------------- *)
SMA50Window == 50
SMA200Window == 200
High52wWindow == 252
MinPeriods == 1

(* ------------------------------ values --------------------------------- *)
\* a cell of a frame: Python None, float NaN, or the number num/den
None == [tag |-> "None", num |-> 0, den |-> 1]
NaN == [tag |-> "NaN", num |-> 0, den |-> 1]
Rat(n, d) == [tag |-> "num", num |-> n, den |-> d]
Num(n) == Rat(n, 1)

IsNum(x) == x.tag = "num"
\* equality of two cells, numbers by value
RatEq(a, b) ==
  /\ a.tag = b.tag
  /\ IsNum(a) => a.num * b.den = b.num * a.den
\* a < b and a <= b on numbers with positive denominators
RatLt(a, b) == a.num * b.den < b.num * a.den
RatLe(a, b) == a.num * b.den <= b.num * a.den

\* the ticker cell that holds None instead of a string
NoTicker == "<None>"

Min(a, b) == IF a <= b THEN a ELSE b
Max(a, b) == IF a >= b THEN a ELSE b

\* the sequences over S of length at most n
SeqUpTo(S, n) == UNION {[1..k -> S] : k \in 0..n}

\* the elements of a sequence
Range(s) == {s[i] : i \in 1..Len(s)}


(* ------------------------------ records -------------------------------- *)
\* models.PriceData, projected on the fields process_data reads
PriceData(d, c) == [date |-> d, close |-> c]

\* models.FundamentalData, projected on as_of, ticker and the two value
\* fields that reach DailyMetrics (book_value, enterprise_value)
FundamentalData(a, bv, ev) ==
  [as_of |-> a, ticker |-> "TEST", book_value |-> bv, enterprise_value |-> ev]

(* ------------------------- pandas building blocks ---------------------- *)
\* DataFrame.sort_values(key): ascending, rows with equal keys keep their
\* order; the row at position i moves to position Rank(s, key, i)
Rank(s, key, i) ==
  Cardinality({j \in 1..Len(s) :
                 s[j][key] < s[i][key] \/ (s[j][key] = s[i][key] /\ j <= i)})

ApplyRank(s, rank) ==
  [k \in 1..Len(s) |-> s[CHOOSE i \in 1..Len(s) : rank[i] = k]]

SortValues(s, key) ==
  CHOOSE out \in {ApplyRank(s, rank) :
                    rank \in {[i \in 1..Len(s) |-> Rank(s, key, i)]}} : TRUE

\* Series.astype(float) on an object column: None becomes NaN
AsFloat(x) == IF x.tag = "None" THEN NaN ELSE x

\* Index.is_unique of the as_of index
IsUnique(f) == \A i, j \in 1..Len(f) : f[i].as_of = f[j].as_of => i = j

\* the row of NaN that reindex(method="ffill") gives a date no as_of precedes
NaNRow == [ticker |-> "<NaN>", book_value |-> NaN, enterprise_value |-> NaN]

\* set_index("as_of").reindex(dates, method="ffill") on the sorted frame f:
\* the pad indexer of date d is the last position whose as_of <= d
PadIndexer(f, d) == Cardinality({j \in 1..Len(f) : f[j].as_of <= d})

Reindex(f, dates) ==
  [i \in 1..Len(dates) |->
     LET k == PadIndexer(f, dates[i])
     IN IF k = 0 THEN NaNRow
        ELSE [ticker |-> f[k].ticker, book_value |-> f[k].book_value,
              enterprise_value |-> f[k].enterprise_value]]

\* c[lo] + ... + c[hi]
RECURSIVE SumRange(_, _, _)
SumRange(c, lo, hi) ==
  IF lo > hi THEN 0
  ELSE IF lo = hi THEN c[lo]
  ELSE LET mid == (lo + hi) \div 2
       IN SumRange(c, lo, mid) + SumRange(c, mid + 1, hi)

\* rolling mean whose running sum gives a close back one row late, so that
\* the window holds w + 1 rows
RollingMeanLateRemoval(c, w) ==
  [i \in 1..Len(c) |->
     LET n == Min(i, w)
         sum == SumRange(c, 1, i) - SumRange(c, 1, i - w - 1)
     IN IF n < MinPeriods THEN NaN ELSE Rat(sum, n)]

\* rolling mean that divides by the window length even while fewer than w
\* rows have accumulated
RollingMeanFullDivisor(c, w) ==
  [i \in 1..Len(c) |->
     LET n == Min(i, w)
         sum == SumRange(c, 1, i) - SumRange(c, 1, i - w)
     IN IF n < MinPeriods THEN NaN ELSE Rat(sum, w)]

\* Series.rolling(window=w, min_periods=MinPeriods).mean(): the running sum
\* has taken in every close up to row i and given back every close that
\* left the window; the count is the number of rows in the window
RollingMean(c, w) ==
  [i \in 1..Len(c) |->
     LET n == Min(i, w)
         sum == SumRange(c, 1, i) - SumRange(c, 1, i - w)
     IN IF n < MinPeriods THEN NaN ELSE Rat(sum, n)]

\* Series.rolling(window=w, min_periods=MinPeriods).max(): the largest close
\* among the last w rows
RollingMax(c, w) ==
  [i \in 1..Len(c) |->
     LET win == {c[j] : j \in Max(1, i - w + 1)..i}
     IN IF Min(i, w) < MinPeriods THEN NaN
        ELSE Num(CHOOSE x \in win : \A y \in win : y <= x)]

(* ------------------------- processor.process_data ---------------------- *)
\* the price frame: one row per PriceData, sorted by date, close as float
PriceFrame(ps) ==
  LET s == SortValues(ps, "date")
  IN [i \in 1..Len(s) |-> [date |-> s[i].date, close |-> Num(s[i].close)]]

\* Series.fillna(method="ffill") on the ticker column: a NaN ticker takes
\* the last ticker above it, if any
FfillTicker(rows) ==
  [i \in 1..Len(rows) |->
     LET known == {j \in 1..i : rows[j].ticker # "<NaN>"}
     IN IF known = {} THEN rows[i]
        ELSE [rows[i] EXCEPT !.ticker =
                rows[CHOOSE j \in known : \A k \in known : k <= j].ticker]]

\* the all-None fundamentals row of the no-fundamentals branch
NoneRow == [ticker |-> NoTicker, book_value |-> None, enterprise_value |-> None]

\* the fundamentals frame on the price dates.  With fundamentals: sorted by
\* as_of, values as float, reindexed on the price dates with ffill (reindex
\* raises ValueError when two rows share an as_of).  Without: all None.
FundFrame(fs, price_df) ==
  IF fs # <<>>
    THEN LET sorted == SortValues(fs, "as_of")
             floats == [i \in 1..Len(sorted) |->
                          [sorted[i] EXCEPT !.book_value = AsFloat(@),
                                            !.enterprise_value = AsFloat(@)]]
             dates == [i \in 1..Len(price_df) |-> price_df[i].date]
         IN IF ~IsUnique(floats)
              THEN [raised |-> TRUE, rows |-> <<>>]
              ELSE [raised |-> FALSE,
                    rows |-> FfillTicker(Reindex(floats, dates))]
    ELSE [raised |-> FALSE, rows |-> [i \in 1..Len(price_df) |-> NoneRow]]

\* the merged frame: the fundamentals frame is padded with None or cut to
\* the price frame's length, its as_of and ticker columns are dropped, it is
\* put beside the price columns, and a ticker column of None is added
Merge(price_df, fund_df) ==
  LET n == Len(price_df)
      fitted == IF Len(fund_df) < n
                  THEN fund_df \o [i \in 1..(n - Len(fund_df)) |-> NoneRow]
                  ELSE SubSeq(fund_df, 1, n)
  IN [i \in 1..n |->
        [date |-> price_df[i].date, close |-> price_df[i].close,
         book_value |-> fitted[i].book_value,
         enterprise_value |-> fitted[i].enterprise_value,
         ticker |-> NoTicker]]

\* (close / high_52w - 1) * 100
PctFromHigh(close, high) ==
  IF ~IsNum(close) \/ ~IsNum(high) \/ high.num = 0 THEN NaN
  ELSE Rat((close.num * high.den - high.num * close.den) * 100,
           high.num * close.den)

\* sma_50, sma_200, high_52w and pct_from_high_52w of a frame's close column
Indicators(frame) ==
  LET c == [i \in 1..Len(frame) |-> frame[i].close.num]
      s50 == RollingMean(c, SMA50Window)
      s200 == RollingMean(c, SMA200Window)
      hi == RollingMax(c, High52wWindow)
  IN [i \in 1..Len(frame) |->
        [sma_50 |-> s50[i], sma_200 |-> s200[i], high_52w |-> hi[i],
         pct_from_high_52w |-> PctFromHigh(frame[i].close, hi[i])]]

\* the lambda of the price_to_book column: None when book_value is None
\* or 0, else close / book_value (NaN when book_value is NaN)
PriceToBookCell(close, bv) ==
  IF bv.tag = "None" \/ (IsNum(bv) /\ bv.num = 0) THEN None
  ELSE IF ~IsNum(bv) THEN NaN
  ELSE Rat(close.num * bv.den, bv.num * close.den)

\* DataFrame.apply(axis=1) builds a float column as soon as one cell is a
\* float, and None becomes NaN in a float column
PriceToBookColumn(merged) ==
  LET cells == [i \in 1..Len(merged) |->
                  PriceToBookCell(merged[i].close, merged[i].book_value)]
      float == \E i \in 1..Len(cells) : cells[i].tag # "None"
  IN [i \in 1..Len(cells) |-> IF float THEN AsFloat(cells[i]) ELSE cells[i]]

\* the merged frame with the indicator and ratio columns
Enrich(merged) ==
  LET ind == Indicators(merged)
      p2b == PriceToBookColumn(merged)
  IN [i \in 1..Len(merged) |->
        [date |-> merged[i].date, ticker |-> merged[i].ticker,
         close |-> merged[i].close,
         sma_50 |-> ind[i].sma_50, sma_200 |-> ind[i].sma_200,
         high_52w |-> ind[i].high_52w,
         pct_from_high_52w |-> ind[i].pct_from_high_52w,
         book_value_per_share |-> merged[i].book_value,
         price_to_book |-> p2b[i],
         enterprise_value |-> merged[i].enterprise_value]]

\* the optional Decimal fields of models.DailyMetrics
DecimalFields ==
  {"sma_50", "sma_200", "high_52w", "pct_from_high_52w",
   "book_value_per_share", "price_to_book", "enterprise_value"}

\* models.DailyMetrics accepts a row: ticker is a string (None is refused),
\* close is a finite Decimal, every optional field is None or a finite
\* Decimal (Decimal(str(NaN)) is refused).  A field that holds the number q
\* here holds Decimal(str(q)) in the code.
DailyMetricsValid(m) ==
  /\ m.ticker # NoTicker
  /\ IsNum(m.close)
  /\ \A f \in DecimalFields : m[f].tag # "NaN"

\* the conversion loop: a row is skipped when its close is missing or when
\* DailyMetrics raises
ConvertRows(frame) == SelectSeq(frame, DailyMetricsValid)

\* fallback that leaves the ticker None, as the merged frame does
FallbackTickerNone(price_df) ==
  LET ind == Indicators(price_df)
      rows == [i \in 1..Len(price_df) |->
                 [date |-> price_df[i].date, ticker |-> NoTicker,
                  close |-> price_df[i].close,
                  sma_50 |-> ind[i].sma_50, sma_200 |-> ind[i].sma_200,
                  high_52w |-> ind[i].high_52w,
                  pct_from_high_52w |-> ind[i].pct_from_high_52w,
                  book_value_per_share |-> None, price_to_book |-> None,
                  enterprise_value |-> None]]
  IN ConvertRows(rows)

\* the fallback frame, from the price frame alone: fundamental-derived
\* fields None, ticker the empty string
Fallback(price_df) ==
  LET ind == Indicators(price_df)
      rows == [i \in 1..Len(price_df) |->
                 [date |-> price_df[i].date, ticker |-> "",
                  close |-> price_df[i].close,
                  sma_50 |-> ind[i].sma_50, sma_200 |-> ind[i].sma_200,
                  high_52w |-> ind[i].high_52w,
                  pct_from_high_52w |-> ind[i].pct_from_high_52w,
                  book_value_per_share |-> None, price_to_book |-> None,
                  enterprise_value |-> None]]
  IN ConvertRows(rows)

\* process_data past its empty-prices guard: the returned frame, or the
\* exception
ProcessDataBody(ps, fs) ==
  LET price_df == PriceFrame(ps)
      fund == FundFrame(fs, price_df)
  IN IF fund.raised THEN [status |-> "raised", rows |-> <<>>]
     ELSE LET metrics == ConvertRows(Enrich(Merge(price_df, fund.rows)))
          IN [status |-> "ok",
              rows |-> IF metrics = <<>> /\ price_df # <<>>
                         THEN Fallback(price_df) ELSE metrics]

\* process_data without the empty-prices guard: sort_values("date") on a
\* frame without columns raises KeyError
ProcessDataNoGuard(ps, fs) ==
  IF ps = <<>> THEN [status |-> "raised", rows |-> <<>>]
  ELSE ProcessDataBody(ps, fs)

\* process_data(raw_data): no prices give the empty frame
ProcessData(ps, fs) ==
  IF ps = <<>> THEN [status |-> "ok", rows |-> <<>>]
  ELSE ProcessDataBody(ps, fs)

(* ------------------------------ signals -------------------------------- *)
\* "sma_50" in df and "sma_200" in df
HasSmaColumns(frame) ==
  frame # <<>> /\ {"sma_50", "sma_200"} \subseteq DOMAIN frame[1]

\* Series.notna(): neither None nor NaN
NotNa(x) == IsNum(x)

\* the labels of df.loc[mask], in frame order
MaskedLabels(frame) ==
  SelectSeq([i \in 1..Len(frame) |-> i],
            LAMBDA i : NotNa(frame[i].sma_50) /\ NotNa(frame[i].sma_200))

\* Series.shift(1): every value moves one row down, NaN enters at the top
Shift(col) ==
  [k \in 1..Len(col) |-> IF k = 1 THEN NaN ELSE col[k - 1]]

\* elementwise comparisons; a comparison with NaN is False
Le(a, b) == IsNum(a) /\ IsNum(b) /\ RatLe(a, b)
Lt(a, b) == IsNum(a) /\ IsNum(b) /\ RatLt(a, b)

\* the dates of the masked rows where cross is True
CrossDates(frame, labels, cross) ==
  LET hits == SelectSeq([k \in 1..Len(labels) |-> k], LAMBDA k : cross[k])
  IN [n \in 1..Len(hits) |-> frame[labels[hits[n]]].date]

\* golden-cross detector whose previous state must be strictly below
DetectGoldenStrictPrev(frame) ==
  IF ~HasSmaColumns(frame) THEN <<>>
  ELSE LET labels == MaskedLabels(frame)
           sma_50 == [k \in 1..Len(labels) |-> frame[labels[k]].sma_50]
           sma_200 == [k \in 1..Len(labels) |-> frame[labels[k]].sma_200]
           prev == [k \in 1..Len(labels) |->
                      Lt(Shift(sma_50)[k], Shift(sma_200)[k])]
           curr == [k \in 1..Len(labels) |-> Lt(sma_200[k], sma_50[k])]
           cross == [k \in 1..Len(labels) |-> prev[k] /\ curr[k]]
       IN IF Len(labels) < 2 THEN <<>> ELSE CrossDates(frame, labels, cross)

\* golden-cross detector that shifts the whole columns before masking, so
\* that a row is compared with the row right above it
DetectGoldenPositional(frame) ==
  IF ~HasSmaColumns(frame) THEN <<>>
  ELSE LET labels == MaskedLabels(frame)
           all_50 == [i \in 1..Len(frame) |-> frame[i].sma_50]
           all_200 == [i \in 1..Len(frame) |-> frame[i].sma_200]
           sma_50 == [k \in 1..Len(labels) |-> frame[labels[k]].sma_50]
           sma_200 == [k \in 1..Len(labels) |-> frame[labels[k]].sma_200]
           prev == [k \in 1..Len(labels) |->
                      Le(Shift(all_50)[labels[k]], Shift(all_200)[labels[k]])]
           curr == [k \in 1..Len(labels) |-> Lt(sma_200[k], sma_50[k])]
           cross == [k \in 1..Len(labels) |-> prev[k] /\ curr[k]]
       IN IF Len(labels) < 2 THEN <<>> ELSE CrossDates(frame, labels, cross)

\* golden-cross detector without the two-row check, for which a first
\* row without a predecessor counts as coming from below
DetectGoldenFirstRowFires(frame) ==
  IF ~HasSmaColumns(frame) THEN <<>>
  ELSE LET labels == MaskedLabels(frame)
           sma_50 == [k \in 1..Len(labels) |-> frame[labels[k]].sma_50]
           sma_200 == [k \in 1..Len(labels) |-> frame[labels[k]].sma_200]
           prev == [k \in 1..Len(labels) |->
                      k = 1 \/ Le(Shift(sma_50)[k], Shift(sma_200)[k])]
           curr == [k \in 1..Len(labels) |-> Lt(sma_200[k], sma_50[k])]
           cross == [k \in 1..Len(labels) |-> prev[k] /\ curr[k]]
       IN CrossDates(frame, labels, cross)

\* golden-cross detector that dates the event one valid row late: at the
\* row after the one where sma_50 first exceeds sma_200
DetectGoldenNextRow(frame) ==
  IF ~HasSmaColumns(frame) THEN <<>>
  ELSE LET labels == MaskedLabels(frame)
           sma_50 == [k \in 1..Len(labels) |-> frame[labels[k]].sma_50]
           sma_200 == [k \in 1..Len(labels) |-> frame[labels[k]].sma_200]
           prev == [k \in 1..Len(labels) |->
                      Le(Shift(Shift(sma_50))[k], Shift(Shift(sma_200))[k])]
           curr == [k \in 1..Len(labels) |->
                      Lt(Shift(sma_200)[k], Shift(sma_50)[k])]
           cross == [k \in 1..Len(labels) |-> prev[k] /\ curr[k]]
       IN IF Len(labels) < 2 THEN <<>> ELSE CrossDates(frame, labels, cross)

\* detect_golden_crossover(df)
DetectGoldenCrossover(frame) ==
  IF ~HasSmaColumns(frame) THEN <<>>
  ELSE LET labels == MaskedLabels(frame)
           sma_50 == [k \in 1..Len(labels) |-> frame[labels[k]].sma_50]
           sma_200 == [k \in 1..Len(labels) |-> frame[labels[k]].sma_200]
           prev == [k \in 1..Len(labels) |->
                      Le(Shift(sma_50)[k], Shift(sma_200)[k])]
           curr == [k \in 1..Len(labels) |-> Lt(sma_200[k], sma_50[k])]
           cross == [k \in 1..Len(labels) |-> prev[k] /\ curr[k]]
       IN IF Len(labels) < 2 THEN <<>> ELSE CrossDates(frame, labels, cross)

\* death-cross detector whose previous state must be strictly above
DetectDeathStrictPrev(frame) ==
  IF ~HasSmaColumns(frame) THEN <<>>
  ELSE LET labels == MaskedLabels(frame)
           sma_50 == [k \in 1..Len(labels) |-> frame[labels[k]].sma_50]
           sma_200 == [k \in 1..Len(labels) |-> frame[labels[k]].sma_200]
           prev == [k \in 1..Len(labels) |->
                      Lt(Shift(sma_200)[k], Shift(sma_50)[k])]
           curr == [k \in 1..Len(labels) |-> Lt(sma_50[k], sma_200[k])]
           cross == [k \in 1..Len(labels) |-> prev[k] /\ curr[k]]
       IN IF Len(labels) < 2 THEN <<>> ELSE CrossDates(frame, labels, cross)

\* death-cross detector copied from the golden one with only the previous
\* comparison turned round
DetectDeathCurrNotFlipped(frame) ==
  IF ~HasSmaColumns(frame) THEN <<>>
  ELSE LET labels == MaskedLabels(frame)
           sma_50 == [k \in 1..Len(labels) |-> frame[labels[k]].sma_50]
           sma_200 == [k \in 1..Len(labels) |-> frame[labels[k]].sma_200]
           prev == [k \in 1..Len(labels) |->
                      Le(Shift(sma_200)[k], Shift(sma_50)[k])]
           curr == [k \in 1..Len(labels) |-> Lt(sma_200[k], sma_50[k])]
           cross == [k \in 1..Len(labels) |-> prev[k] /\ curr[k]]
       IN IF Len(labels) < 2 THEN <<>> ELSE CrossDates(frame, labels, cross)

\* detect_death_cross(df)
DetectDeathCross(frame) ==
  IF ~HasSmaColumns(frame) THEN <<>>
  ELSE LET labels == MaskedLabels(frame)
           sma_50 == [k \in 1..Len(labels) |-> frame[labels[k]].sma_50]
           sma_200 == [k \in 1..Len(labels) |-> frame[labels[k]].sma_200]
           prev == [k \in 1..Len(labels) |->
                      Le(Shift(sma_200)[k], Shift(sma_50)[k])]
           curr == [k \in 1..Len(labels) |-> Lt(sma_50[k], sma_200[k])]
           cross == [k \in 1..Len(labels) |-> prev[k] /\ curr[k]]
       IN IF Len(labels) < 2 THEN <<>> ELSE CrossDates(frame, labels, cross)

(* ------------------------------ inputs --------------------------------- *)
CloseVals == <<11, 12, 13>>

\* the close of date d in the price pattern that starts at offset shift
CloseOn(d, shift) == CloseVals[((d + shift - 1) % Len(CloseVals)) + 1]

\* the dates of a set as a list, ascending or descending
RECURSIVE Ascending(_)
Ascending(S) ==
  IF S = {} THEN <<>>
  ELSE LET m == CHOOSE x \in S : \A y \in S : x <= y
       IN <<m>> \o Ascending(S \ {m})

Reverse(s) == [i \in 1..Len(s) |-> s[Len(s) + 1 - i]]

\* short price histories: any set of dates, one PriceData per date, handed
\* over in ascending or in descending date order
ShortPrices ==
  {[i \in 1..Len(ds) |-> PriceData(ds[i], CloseOn(ds[i], shift))] :
     ds \in {Ascending(S) : S \in SUBSET (1..MaxDate)}
            \cup {Reverse(Ascending(S)) : S \in SUBSET (1..MaxDate)},
     shift \in 0..(Len(CloseVals) - 1)}

\* what a fundamental observation may report
FundPayloads ==
  {<<Num(10), Num(200)>>, <<Num(0), Num(300)>>, <<None, None>>}

\* as_of before every price date, between the price dates, after them all
FundDates == {0, 2, MaxDate + 1}

FundChoices ==
  {FundamentalData(a, p[1], p[2]) : a \in FundDates, p \in FundPayloads}

\* long price histories, longer than every rolling window: dates 1..n,
\* closes alternating 12 and 11 with one spike of 13 at date k
LongPrices ==
  {[i \in 1..(High52wWindow + LongExtra) |->
      PriceData(i, IF i = k THEN 13 ELSE 11 + (i % 2))] :
     k \in 1..(LongExtra + 1)}

LongFunds == {<<>>, <<FundamentalData(0, Num(10), Num(200))>>}

\* one row of a frame handed to the detectors: sma_50 below, above or equal
\* to sma_200, or one or both of them null (NaN, or None in an object column)
SmaPairs ==
  {<<Num(1), Num(2)>>, <<Num(2), Num(1)>>, <<Num(1), Num(1)>>,
   <<NaN, Num(1)>>, <<Num(1), NaN>>, <<NaN, NaN>>, <<Num(2), None>>}

\* frames with ascending dates 11, 12, ...
SignalFrames ==
  {[i \in 1..Len(ps) |->
      [date |-> 10 + i, sma_50 |-> ps[i][1], sma_200 |-> ps[i][2]]] :
     ps \in SeqUpTo(SmaPairs, MaxRows)}

(* --------------------------- state machine ----------------------------- *)
\* no fetch is under way: nothing fetched, nothing consumed
FetchIdle ==
  /\ raw = <<>>
  /\ pos = 0
  /\ result = [prices |-> <<>>, warnings |-> <<>>]

\* the database right after init_db on a new file: three empty tables
EmptyStore == [tickers |-> <<>>, daily_metrics |-> <<>>, signal_events |-> <<>>]

\* no save call has been made yet
NoCall ==
  [op |-> "none", ticker |-> "", name |-> "", rows |-> <<>>,
   signal_type |-> "", dates |-> <<>>]

StoreIdle ==
  /\ store = EmptyStore
  /\ calls = 0
  /\ last = NoCall

\* the caller holds raw_data and has not called process_data yet
Init ==
  /\ pc = "process"
  /\ \/ prices \in ShortPrices /\ fundamentals \in SeqUpTo(FundChoices, MaxFunds)
     \/ prices \in LongPrices /\ fundamentals \in LongFunds
  /\ status = "none"
  /\ df = <<>>
  /\ golden = <<>>
  /\ death = <<>>
  /\ FetchIdle
  /\ StoreIdle

\* a caller of the detectors holds a frame with SMA columns
InitSignals ==
  /\ pc = "golden"
  /\ prices = <<>>
  /\ fundamentals = <<>>
  /\ status = "none"
  /\ df \in SignalFrames
  /\ golden = <<>>
  /\ death = <<>>
  /\ FetchIdle
  /\ StoreIdle

\* metrics_df = process_data(raw_data); the caller stops on an exception
\* and on an empty frame
ProcessDataStep ==
  /\ pc = "process"
  /\ \E r \in {ProcessData(prices, fundamentals)} :
        /\ status' = r.status
        /\ df' = r.rows
        /\ pc' = IF r.status = "raised" THEN "failed"
                 ELSE IF r.rows = <<>> THEN "exit" ELSE "golden"
  /\ UNCHANGED <<prices, fundamentals, golden, death, fetchVars, storeVars>>

\* golden_cross_dates = detect_golden_crossover(metrics_df)
GoldenStep ==
  /\ pc = "golden"
  /\ golden' = DetectGoldenCrossover(df)
  /\ pc' = "death"
  /\ UNCHANGED <<prices, fundamentals, status, df, death, fetchVars, storeVars>>

\* death_cross_dates = detect_death_cross(metrics_df)
DeathStep ==
  /\ pc = "death"
  /\ death' = DetectDeathCross(df)
  /\ pc' = "done"
  /\ UNCHANGED <<prices, fundamentals, status, df, golden, fetchVars, storeVars>>

Next == ProcessDataStep \/ GoldenStep \/ DeathStep

Spec == Init /\ [][Next]_vars

NextSignals == GoldenStep \/ DeathStep

SpecSignals == InitSignals /\ [][NextSignals]_vars

(* ------------------------- claims on process_data ---------------------- *)
\* process_data has returned
Returned == pc # "process" /\ status = "ok"

\* the fundamentals dated on or before d, and the latest among them
Preceding(d) == {f \in Range(fundamentals) : f.as_of <= d}
Latest(d) == {f \in Preceding(d) : \A g \in Preceding(d) : g.as_of <= f.as_of}

\* the cell c holds the fundamental value v (None for a value not reported)
Holds(c, v) == RatEq(c, v)

\* the closes of the input prices in ascending date order: the j-th close
\* belongs to the price with j - 1 earlier prices
EarlierCount ==
  [i \in 1..Len(prices) |->
     Cardinality({k \in 1..Len(prices) : prices[k].date < prices[i].date})]

InputCloses ==
  CHOOSE out \in
    {[j \in 1..Len(prices) |->
        prices[CHOOSE i \in 1..Len(prices) : n[i] = j - 1].close] :
       n \in {EarlierCount}} : TRUE

\* C1: every output row carries the book value and the enterprise value of
\* the latest fundamental dated on or before the row's date, and None when
\* there is none.
C1_CarryForward ==
  Returned =>
    \A i \in 1..Len(df) :
      IF Preceding(df[i].date) = {}
        THEN /\ df[i].book_value_per_share = None
             /\ df[i].enterprise_value = None
        ELSE \E f \in Latest(df[i].date) :
               /\ Holds(df[i].book_value_per_share, f.book_value)
               /\ Holds(df[i].enterprise_value, f.enterprise_value)

\* the three-day scenario: closes 11, 12, 13 and one fundamental dated the
\* day before with book value 10
Scenario ==
  /\ prices = <<PriceData(1, 11), PriceData(2, 12), PriceData(3, 13)>>
  /\ fundamentals = <<FundamentalData(0, Num(10), Num(200))>>

\* C2: on every output row book_value_per_share is the carried-forward book
\* value and price_to_book is close / book value when that is present and
\* not zero, else None; in the three-day scenario the output has 3 rows with
\* book_value_per_share 10 and price_to_book 1.1, 1.2, 1.3.
C2_BookValueRatios ==
  Returned =>
    /\ \A i \in 1..Len(df) : \A f \in Latest(df[i].date) :
         /\ Holds(df[i].book_value_per_share, f.book_value)
         /\ IF IsNum(f.book_value) /\ f.book_value.num # 0
              THEN Holds(df[i].price_to_book,
                         Rat(df[i].close.num, f.book_value.num))
              ELSE df[i].price_to_book = None
    /\ Scenario =>
         /\ Len(df) = 3
         /\ \A i \in 1..3 :
              /\ Holds(df[i].book_value_per_share, Num(10))
              /\ Holds(df[i].price_to_book, Rat(10 + i, 10))

\* C3: process_data returns exactly one row per price, whatever the
\* fundamentals are, so the output is not empty when a price exists.
C3_OneRowPerPrice ==
  pc # "process" =>
    /\ status = "ok"
    /\ Len(df) = Len(prices)
    /\ {df[i].date : i \in 1..Len(df)} = {p.date : p \in Range(prices)}

\* C4: on every output row i (counted from 1, in ascending date order)
\* sma_50 is the mean of the closes of rows max(1, i-49)..i, sma_200 the mean
\* over rows max(1, i-199)..i and high_52w the largest close of rows
\* max(1, i-251)..i; none of the three is null.
C4_RollingWindows ==
  Returned =>
    \E c \in {InputCloses} :
      \A i \in 1..Len(df) :
        LET lo50 == Max(1, i - 49)
            lo200 == Max(1, i - 199)
            win == Max(1, i - 251)..i
        IN /\ df[i].close = Num(c[i])
           /\ IsNum(df[i].sma_50)
           /\ df[i].sma_50.num * (i - lo50 + 1)
                = SumRange(c, lo50, i) * df[i].sma_50.den
           /\ IsNum(df[i].sma_200)
           /\ df[i].sma_200.num * (i - lo200 + 1)
                = SumRange(c, lo200, i) * df[i].sma_200.den
           /\ IsNum(df[i].high_52w) /\ df[i].high_52w.den = 1
           /\ \E j \in win : c[j] = df[i].high_52w.num
           /\ \A j \in win : c[j] <= df[i].high_52w.num

\* C4 witness: a returned frame longer than all three windows, on whose last
\* row the three indicators differ from the expanding ones
C4_Witness ==
  /\ Returned
  /\ Len(df) > 252
  /\ df[Len(df)].sma_50.den = 50
  /\ df[Len(df)].sma_200.den = 200
  /\ df[Len(df)].high_52w.num < 13

\* C5: without fundamentals and with at least one price, the output is not
\* empty, has a book_value_per_share column, holds None in
\* book_value_per_share and price_to_book on every row, and holds numbers in
\* close, sma_50, sma_200 and high_52w.
C5_EmptyFundamentals ==
  (pc # "process" /\ fundamentals = <<>> /\ prices # <<>>) =>
    /\ status = "ok"
    /\ df # <<>>
    /\ \A i \in 1..Len(df) :
         /\ "book_value_per_share" \in DOMAIN df[i]
         /\ df[i].book_value_per_share = None
         /\ df[i].price_to_book = None
         /\ IsNum(df[i].close) /\ IsNum(df[i].sma_50)
         /\ IsNum(df[i].sma_200) /\ IsNum(df[i].high_52w)

\* C5 witness: process_data has returned rows for prices without fundamentals
C5_Witness ==
  Returned /\ fundamentals = <<>> /\ Len(prices) >= 2 /\ Len(df) >= 2

\* C6: without prices process_data returns the empty frame and raises
\* nothing, whatever the fundamentals are.
C6_EmptyPrices ==
  (pc # "process" /\ prices = <<>>) => (status = "ok" /\ df = <<>>)

\* C6 witness: process_data has returned for no prices and two fundamentals
\* that share an as_of
C6_Witness ==
  /\ Returned /\ prices = <<>>
  /\ Len(fundamentals) = 2
  /\ fundamentals[1].as_of = fundamentals[2].as_of

(* ----------------------- claims on the detectors ------------------------ *)
\* row i of the frame has both averages
Valid(i) == IsNum(df[i].sma_50) /\ IsNum(df[i].sma_200)

\* j is the last valid row above row i
LastValidBefore(j, i) ==
  /\ j \in 1..(i - 1)
  /\ Valid(j)
  /\ \A k \in (j + 1)..(i - 1) : ~Valid(k)

Below(i) == RatLt(df[i].sma_50, df[i].sma_200)
Above(i) == RatLt(df[i].sma_200, df[i].sma_50)
Level(i) == RatEq(df[i].sma_50, df[i].sma_200)

\* the rows where a golden cross, a death cross is due
GoldenRows ==
  {i \in 1..Len(df) :
     /\ Valid(i) /\ Above(i)
     /\ \E j \in 1..Len(df) : LastValidBefore(j, i) /\ ~Above(j)}

DeathRows ==
  {i \in 1..Len(df) :
     /\ Valid(i) /\ Below(i)
     /\ \E j \in 1..Len(df) : LastValidBefore(j, i) /\ ~Below(j)}

StrictlyAscending(s) == \A a, b \in 1..Len(s) : a < b => s[a] < s[b]

GoldenDone == pc \in {"death", "done"}
DeathDone == pc = "done"

\* C7: detect_golden_crossover returns, in ascending date order, exactly the
\* dates of the valid rows whose own sma_50 is above sma_200 and whose last
\* valid row before had sma_50 at or below sma_200.
C7_GoldenExact ==
  GoldenDone =>
    /\ StrictlyAscending(golden)
    /\ Range(golden) = {df[i].date : i \in GoldenRows}

\* C7 witness: two golden crosses were returned, one of them after a row
\* where the averages were equal
C7_Witness ==
  /\ GoldenDone
  /\ Len(golden) >= 2
  /\ \E i \in GoldenRows : \E j \in 1..Len(df) :
       LastValidBefore(j, i) /\ Level(j)
  /\ \E i \in 2..Len(df) : Valid(i) /\ Level(i) /\ Level(i - 1)

\* C8: detect_death_cross returns, in ascending date order, exactly the
\* dates of the valid rows whose own sma_50 is below sma_200 and whose last
\* valid row before had sma_50 at or above sma_200.
C8_DeathExact ==
  DeathDone =>
    /\ StrictlyAscending(death)
    /\ Range(death) = {df[i].date : i \in DeathRows}

\* C8 witness: two death crosses were returned, one of them after a row
\* where the averages were equal
C8_Witness ==
  /\ DeathDone
  /\ Len(death) >= 2
  /\ \E i \in DeathRows : \E j \in 1..Len(df) :
       LastValidBefore(j, i) /\ Level(j)

\* C9: no date is returned by both detectors.
C9_Exclusive ==
  DeathDone => Range(golden) \cap Range(death) = {}

\* C9 witness: both detectors returned a date for the same frame, and the
\* frame has a step from equal averages to sma_50 above
C9_Witness ==
  /\ DeathDone
  /\ golden # <<>>
  /\ death # <<>>
  /\ \E i \in GoldenRows : Valid(i - 1) /\ Level(i - 1)

\* C10: no event is dated at a row where an average is null, and a valid
\* row that follows null rows is an event exactly when the comparison with
\* the last valid row before the nulls says so.
C10_NullRows ==
  DeathDone =>
    /\ \A i \in 1..Len(df) :
         ~Valid(i) => df[i].date \notin Range(golden) \cup Range(death)
    /\ \A i \in 2..Len(df), j \in 1..Len(df) :
         (Valid(i) /\ ~Valid(i - 1) /\ LastValidBefore(j, i)) =>
           /\ df[i].date \in Range(golden) <=> (~Above(j) /\ Above(i))
           /\ df[i].date \in Range(death) <=> (~Below(j) /\ Below(i))

\* C10 witness: a golden cross was returned for a row that follows a null
\* row
C10_Witness ==
  /\ DeathDone
  /\ \E i \in 3..Len(df), j \in 1..Len(df) :
       /\ Valid(i) /\ ~Valid(i - 1) /\ LastValidBefore(j, i)
       /\ df[i].date \in Range(golden)

(* ------------------ the detectors on frames of any shape ---------------- *)
\* frames that lack one or both SMA columns
PartialFrames ==
  {[i \in 1..n |-> [date |-> 10 + i]] : n \in 1..MaxRows}
  \cup {[i \in 1..Len(c) |-> [date |-> 10 + i, sma_50 |-> c[i]]] :
          c \in SeqUpTo({Num(1), Num(2)}, MaxRows) \ {<<>>}}
  \cup {[i \in 1..Len(c) |-> [date |-> 10 + i, sma_200 |-> c[i]]] :
          c \in SeqUpTo({Num(1), Num(2)}, MaxRows) \ {<<>>}}

\* the frame of test_golden_and_death_cross: five ascending dates,
\* sma_50 = [1, 2, 3, 5, 7] and sma_200 = [2, 2, 2, 2, 2]
CrossTestSma50 == <<1, 2, 3, 5, 7>>

CrossTestFrame ==
  [i \in 1..Len(CrossTestSma50) |->
     [date |-> 10 + i, sma_50 |-> Num(CrossTestSma50[i]), sma_200 |-> Num(2)]]

\* a caller of the detectors holds any frame
InitDetectors ==
  /\ pc = "golden"
  /\ prices = <<>>
  /\ fundamentals = <<>>
  /\ status = "none"
  /\ df \in SignalFrames \cup PartialFrames \cup {CrossTestFrame}
  /\ golden = <<>>
  /\ death = <<>>
  /\ FetchIdle
  /\ StoreIdle

SpecDetectors == InitDetectors /\ [][NextSignals]_vars

\* the number of rows of the frame that have both averages
HasBoth(r) == {"sma_50", "sma_200"} \subseteq DOMAIN r

ValidRowCount ==
  Cardinality({i \in 1..Len(df) :
                 HasBoth(df[i]) /\ IsNum(df[i].sma_50) /\ IsNum(df[i].sma_200)})

\* C11: when fewer than two rows have both averages, an absent SMA column
\* included, both detectors return the empty list.
C11_InsufficientData ==
  (DeathDone /\ ValidRowCount < 2) => (golden = <<>> /\ death = <<>>)

\* C11 witness: both detectors have run on a frame of three rows or more
\* with both columns, of which exactly one row has both averages, and that
\* row has sma_50 above sma_200
C11_Witness ==
  /\ DeathDone
  /\ Len(df) >= 3
  /\ HasBoth(df[1])
  /\ ValidRowCount = 1
  /\ \E i \in 1..Len(df) : Valid(i) /\ Above(i)

\* C12 as stated: on the frame of test_golden_and_death_cross the one golden
\* cross is dated at index 3, the row with sma_50 = 5.
C12_CrossAtIndex3 ==
  (GoldenDone /\ df = CrossTestFrame) => golden = <<df[4].date>>

\* C12 amended: on the frame of test_golden_and_death_cross
\* detect_golden_crossover returns exactly one date, that of index 2, the
\* row with sma_50 = 3 (the row before has 2 <= 2, the row itself 3 > 2).
C12_CrossAtIndex2 ==
  (GoldenDone /\ df = CrossTestFrame) => golden = <<df[3].date>>

\* C12 witness: detect_golden_crossover has returned for that frame
C12_Witness ==
  /\ GoldenDone
  /\ df = CrossTestFrame
  /\ Len(golden) = 1

(* ------------------- models.PriceData and the price loop ---------------- *)
\* the messages of PriceData.check_price_relationships and of the two
\* failures that precede it
HighLowError == "High price must be >= Low price"
OpenError == "Open price must be between Low and High"
CloseError == "Close price must be between Low and High"
FiniteError == "Input should be a finite number"
IntError == "cannot convert float NaN to integer"

\* validator that forgets to compare open and close with low
CheckAgainstHighOnly(open, high, low, close) ==
  IF high < low THEN HighLowError
  ELSE IF open > high THEN OpenError
  ELSE IF close > high THEN CloseError
  ELSE "ok"

\* PriceData.check_price_relationships: "ok", or the message of the first
\* ValueError raised
check_price_relationships(open, high, low, close) ==
  IF high < low THEN HighLowError
  ELSE IF open > high \/ open < low THEN OpenError
  ELSE IF close > high \/ close < low THEN CloseError
  ELSE "ok"

\* PriceData(date=..., open=Decimal(str(row["Open"])), ...,
\* volume=int(row["Volume"])) for one row of stock.history(): the model
\* built, or the message of the exception raised.  int() of a NaN volume
\* raises while the arguments are evaluated; a NaN price is refused by the
\* Decimal fields before the validator runs.
NewPriceData(d, row) ==
  IF ~IsNum(row.Volume) THEN [ok |-> FALSE, error |-> IntError]
  ELSE IF \E c \in {row.Open, row.High, row.Low, row.Close} : ~IsNum(c)
    THEN [ok |-> FALSE, error |-> FiniteError]
  ELSE LET verdict == check_price_relationships(row.Open.num, row.High.num,
                                                 row.Low.num, row.Close.num)
       IN IF verdict = "ok"
            THEN [ok |-> TRUE,
                  price |-> [date |-> d, open |-> row.Open.num,
                             high |-> row.High.num, low |-> row.Low.num,
                             close |-> row.Close.num,
                             volume |-> row.Volume.num]]
            ELSE [ok |-> FALSE, error |-> verdict]

\* price loop whose handler starts the list again after a bad row
PriceLoopBodyRestarts(res, d, row) ==
  LET built == NewPriceData(d, row)
  IN IF built.ok
       THEN [res EXCEPT !.prices = Append(@, built.price)]
       ELSE [prices |-> <<>>,
             warnings |-> Append(res.warnings, [date |-> d, error |-> built.error])]

\* one turn of the price loop of fetch_stock_data: append the PriceData, or
\* log a warning with the date and the exception and go on
PriceLoopBody(res, d, row) ==
  LET built == NewPriceData(d, row)
  IN IF built.ok
       THEN [res EXCEPT !.prices = Append(@, built.price)]
       ELSE [res EXCEPT !.warnings = Append(@, [date |-> d, error |-> built.error])]

\* the rows stock.history() may return: every combination of two price
\* levels with a positive volume, a sound row with a zero and with a
\* negative volume, a row with a NaN price and a row with a NaN volume
RawLevels == {Num(1), Num(2)}

RawRows ==
  {[Open |-> o, High |-> h, Low |-> l, Close |-> c, Volume |-> Num(5)] :
     o \in RawLevels, h \in RawLevels, l \in RawLevels, c \in RawLevels}
  \cup {[Open |-> Num(1), High |-> Num(2), Low |-> Num(1), Close |-> Num(2),
         Volume |-> v] : v \in {Num(0), Num(0 - 1), NaN}}
  \cup {[Open |-> Num(1), High |-> NaN, Low |-> Num(1), Close |-> Num(1),
         Volume |-> Num(5)]}

\* fetch_stock_data has received the history and starts with an empty result
InitFetch ==
  /\ pc = "fetch"
  /\ prices = <<>>
  /\ fundamentals = <<>>
  /\ status = "none"
  /\ df = <<>>
  /\ golden = <<>>
  /\ death = <<>>
  /\ raw \in SeqUpTo(RawRows, MaxRawRows)
  /\ pos = 0
  /\ result = [prices |-> <<>>, warnings |-> <<>>]
  /\ StoreIdle

\* if df.empty: return result
FetchEmpty ==
  /\ pc = "fetch"
  /\ raw = <<>>
  /\ pc' = "fetched"
  /\ UNCHANGED <<prices, fundamentals, status, df, golden, death,
                 fetchVars, storeVars>>

\* one turn of "for _, row in df.iterrows()"; the date of a row is its
\* position in the history
FetchRow ==
  /\ pc = "fetch"
  /\ pos < Len(raw)
  /\ pos' = pos + 1
  /\ result' = PriceLoopBody(result, pos + 1, raw[pos + 1])
  /\ UNCHANGED <<pc, prices, fundamentals, status, df, golden, death,
                 raw, storeVars>>

\* the loop is over: the fundamentals are gathered, each source under its
\* own try, and result is returned with the prices as the loop left them
FetchReturn ==
  /\ pc = "fetch"
  /\ raw # <<>>
  /\ pos = Len(raw)
  /\ pc' = "fetched"
  /\ UNCHANGED <<prices, fundamentals, status, df, golden, death,
                 fetchVars, storeVars>>

NextFetch == FetchEmpty \/ FetchRow \/ FetchReturn

SpecFetch == InitFetch /\ [][NextFetch]_vars

(* ------------------- claims on PriceData and the fetch ------------------ *)
\* the raw rows the loop has consumed
Consumed == 1..pos

\* every price and the volume of raw row i is a number
Finite(i) ==
  \A c \in {raw[i].Open, raw[i].High, raw[i].Low, raw[i].Close, raw[i].Volume} :
    IsNum(c)

\* low <= high, low <= open <= high and low <= close <= high in raw row i
Related(i) ==
  /\ RatLe(raw[i].Low, raw[i].High)
  /\ RatLe(raw[i].Low, raw[i].Open) /\ RatLe(raw[i].Open, raw[i].High)
  /\ RatLe(raw[i].Low, raw[i].Close) /\ RatLe(raw[i].Close, raw[i].High)

\* a PriceData was built for raw row i; the messages logged for it
Accepted(i) == \E p \in Range(result.prices) : p.date = i
Logged(i) == {w.error : w \in {x \in Range(result.warnings) : x.date = i}}

\* the message names a relationship that raw row i violates
Names(msg, i) ==
  \/ msg = HighLowError /\ RatLt(raw[i].High, raw[i].Low)
  \/ /\ msg = OpenError
     /\ RatLt(raw[i].High, raw[i].Open) \/ RatLt(raw[i].Open, raw[i].Low)
  \/ /\ msg = CloseError
     /\ RatLt(raw[i].High, raw[i].Close) \/ RatLt(raw[i].Close, raw[i].Low)

\* C13: for a tuple of finite prices a PriceData is built exactly when
\* low <= high, low <= open <= high and low <= close <= high; otherwise the
\* construction fails with one error, which names a relationship the tuple
\* violates.
C13_PriceValidation ==
  \A i \in Consumed :
    Finite(i) =>
      /\ Accepted(i) <=> Related(i)
      /\ ~Related(i) => (Logged(i) # {} /\ \A msg \in Logged(i) : Names(msg, i))
      /\ Related(i) => Logged(i) = {}

\* C13 witness: fetch_stock_data has returned after the loop consumed a
\* sound tuple, a tuple with high below low, and a tuple refused for its
\* open although the open is not above high
C13_Witness ==
  /\ \E i \in Consumed : Finite(i) /\ Accepted(i)
  /\ \E i \in Consumed : Finite(i) /\ HighLowError \in Logged(i)
  /\ \E i \in Consumed :
       /\ Finite(i) /\ OpenError \in Logged(i)
       /\ RatLe(raw[i].Open, raw[i].High)
  /\ pc = "fetched"

\* C14: every PriceData in the price list has volume >= 0.
C14_VolumeNonNegative ==
  \A p \in Range(result.prices) : p.volume >= 0

\* the positions of the consumed rows that are finite and related, in order
SoundRows == SelectSeq([i \in 1..pos |-> i], LAMBDA i : Finite(i) /\ Related(i))

\* C15: the price list is exactly the sound rows consumed so far, in their
\* order; every other consumed row left one warning, in order; and
\* fetch_stock_data returns only after the last row was consumed.
C15_PerRowRejection ==
  /\ [k \in 1..Len(result.prices) |-> result.prices[k].date] = SoundRows
  /\ \A k \in 1..Len(result.prices) :
       LET p == result.prices[k]
           r == raw[p.date]
       IN /\ p.open = r.Open.num /\ p.high = r.High.num
          /\ p.low = r.Low.num /\ p.close = r.Close.num
          /\ p.volume = r.Volume.num
  /\ [k \in 1..Len(result.warnings) |-> result.warnings[k].date]
       = SelectSeq([i \in 1..pos |-> i], LAMBDA i : ~(Finite(i) /\ Related(i)))
  /\ pc = "fetched" => pos = Len(raw)

\* C15 witness: fetch_stock_data has returned two prices for a history of
\* three rows whose middle row was refused
C15_Witness ==
  /\ pc = "fetched"
  /\ Len(raw) = 3
  /\ [k \in 1..Len(result.prices) |-> result.prices[k].date] = <<1, 3>>
  /\ Len(result.warnings) = 1

(* ------------------------------ database -------------------------------- *)
\* A table is the list of its rows in insertion order; the integer primary
\* key of a row is its position (rows are never deleted).  Every save builds
\* an object without primary key, so session.merge adds it as a new object
\* and session.commit issues an INSERT; when the INSERT breaks a unique
\* constraint the IntegrityError is caught and the session rolled back.
\* SQLite does not enforce the foreign keys on tickers.ticker.

\* UniqueConstraint / unique=True of the three tables
TickerTaken(table, t) == \E r \in Range(table) : r.ticker = t

MetricTaken(table, t, d) ==
  \E r \in Range(table) : r.ticker = t /\ r.date = d

SignalTaken(table, t, d, k) ==
  \E r \in Range(table) : r.ticker = t /\ r.date = d /\ r.signal_type = k

\* INSERT into daily_metrics on a table without the unique constraint
MergeDailyMetricUnconstrained(table, t, row) ==
  Append(table, [id |-> Len(table) + 1, ticker |-> t, date |-> row.date,
                 close |-> row.close])

\* session.merge(Ticker(...)); session.commit(), rollback on IntegrityError
MergeTicker(table, t, name) ==
  IF TickerTaken(table, t) THEN table
  ELSE Append(table, [id |-> Len(table) + 1, ticker |-> t, name |-> name])

\* session.merge(DailyMetric(...)); session.commit(), rollback on
\* IntegrityError
MergeDailyMetric(table, t, row) ==
  IF MetricTaken(table, t, row.date) THEN table
  ELSE Append(table, [id |-> Len(table) + 1, ticker |-> t, date |-> row.date,
                      close |-> row.close])

\* session.merge(SignalEvent(...)); session.commit(), rollback on
\* IntegrityError
MergeSignalEvent(table, t, d, k, meta) ==
  IF SignalTaken(table, t, d, k) THEN table
  ELSE Append(table, [id |-> Len(table) + 1, ticker |-> t, date |-> d,
                      signal_type |-> k, meta |-> meta])

\* save_ticker(session, ticker, name)
save_ticker(st, t, name) ==
  [st EXCEPT !.tickers = MergeTicker(@, t, name)]

\* save_daily_metrics(session, ticker, df): the loop over df.iterrows()
RECURSIVE MergeDailyMetrics(_, _, _)
MergeDailyMetrics(table, t, rows) ==
  IF rows = <<>> THEN table
  ELSE MergeDailyMetrics(MergeDailyMetric(table, t, Head(rows)), t, Tail(rows))

save_daily_metrics(st, t, frame) ==
  [st EXCEPT !.daily_metrics = MergeDailyMetrics(@, t, frame)]

\* save_signal_events(session, ticker, signal_type, dates, meta): the loop
\* over dates
RECURSIVE MergeSignalEvents(_, _, _, _, _)
MergeSignalEvents(table, t, k, dates, meta) ==
  IF dates = <<>> THEN table
  ELSE MergeSignalEvents(MergeSignalEvent(table, t, Head(dates), k, meta),
                         t, k, Tail(dates), meta)

save_signal_events(st, t, k, dates, meta) ==
  [st EXCEPT !.signal_events = MergeSignalEvents(@, t, k, dates, meta)]

\* what the callers may save: two tickers, a name or none, frames of one or
\* two rows over two dates and two closes, date lists over the same dates
SaveTickers == {"AAA", "BBB"}
NoName == "<None>"
SaveNames == {NoName, "Alpha", "Beta"}
SaveRows == {[date |-> d, close |-> c] : d \in {1, 2}, c \in {11, 12}}
SaveFrames ==
  {<<>>} \cup {<<a>> : a \in SaveRows} \cup {<<a, b>> : a \in SaveRows, b \in SaveRows}
SaveDates == {<<1>>, <<2>>, <<1, 2>>, <<1, 1>>}
SignalTypes == {"golden_cross", "death_cross"}

\* a session on a new database
InitStore ==
  /\ pc = "store"
  /\ prices = <<>>
  /\ fundamentals = <<>>
  /\ status = "none"
  /\ df = <<>>
  /\ golden = <<>>
  /\ death = <<>>
  /\ FetchIdle
  /\ StoreIdle

SaveTicker ==
  /\ pc = "store"
  /\ calls < MaxCalls
  /\ \E t \in SaveTickers, name \in SaveNames :
       /\ store' = save_ticker(store, t, name)
       /\ last' = [NoCall EXCEPT !.op = "ticker", !.ticker = t, !.name = name]
  /\ calls' = calls + 1
  /\ UNCHANGED <<pc, prices, fundamentals, status, df, golden, death, fetchVars>>

SaveDailyMetrics ==
  /\ pc = "store"
  /\ calls < MaxCalls
  /\ \E t \in SaveTickers, frame \in SaveFrames :
       /\ store' = save_daily_metrics(store, t, frame)
       /\ last' = [NoCall EXCEPT !.op = "daily", !.ticker = t, !.rows = frame]
  /\ calls' = calls + 1
  /\ UNCHANGED <<pc, prices, fundamentals, status, df, golden, death, fetchVars>>

SaveSignalEvents ==
  /\ pc = "store"
  /\ calls < MaxCalls
  /\ \E t \in SaveTickers, k \in SignalTypes, dates \in SaveDates :
       /\ store' = save_signal_events(store, t, k, dates, NoName)
       /\ last' = [NoCall EXCEPT !.op = "signal", !.ticker = t,
                                 !.signal_type = k, !.dates = dates]
  /\ calls' = calls + 1
  /\ UNCHANGED <<pc, prices, fundamentals, status, df, golden, death, fetchVars>>

NextStore == SaveTicker \/ SaveDailyMetrics \/ SaveSignalEvents

SpecStore == InitStore /\ [][NextStore]_vars

(* -------------------------- claims on the database ---------------------- *)
\* the rows stored under a natural key
MetricsOf(t, d) ==
  {r \in Range(store.daily_metrics) : r.ticker = t /\ r.date = d}

SignalsOf(t, d, k) ==
  {r \in Range(store.signal_events) :
     r.ticker = t /\ r.date = d /\ r.signal_type = k}

TickersOf(t) == {r \in Range(store.tickers) : r.ticker = t}

\* C16: the store never holds two daily_metrics rows of one (ticker, date)
\* nor two signal_events rows of one (ticker, date, signal_type), and after
\* a save every row handed over has a stored row under its key, whether or
\* not an earlier row of the same call hit an existing key.
C16_NoDuplicates ==
  /\ \A t \in SaveTickers, d \in {1, 2} : Cardinality(MetricsOf(t, d)) <= 1
  /\ \A t \in SaveTickers, d \in {1, 2}, k \in SignalTypes :
       Cardinality(SignalsOf(t, d, k)) <= 1
  /\ last.op = "daily" =>
       \A row \in Range(last.rows) : MetricsOf(last.ticker, row.date) # {}
  /\ last.op = "signal" =>
       \A d \in Range(last.dates) :
         SignalsOf(last.ticker, d, last.signal_type) # {}

\* C16 witness: the second save_daily_metrics call handed over two rows; the
\* first hit a key stored by the call before (the stored close differs), the
\* second was new and is the row stored last
C16_Witness ==
  /\ last.op = "daily"
  /\ calls = 2
  /\ Len(last.rows) = 2
  /\ last.rows[1].date # last.rows[2].date
  /\ \E r \in MetricsOf(last.ticker, last.rows[1].date) :
       r.close # last.rows[1].close
  /\ \E r \in MetricsOf(last.ticker, last.rows[2].date) :
       r.id = Len(store.daily_metrics) /\ r.close = last.rows[2].close

\* the last row of the frame for each of its dates
FinalRows(frame) ==
  {frame[i] : i \in {j \in 1..Len(frame) :
                       \A k \in (j + 1)..Len(frame) : frame[k].date # frame[j].date}}

\* C17: after save_ticker the stored ticker row holds the name just saved,
\* and after save_daily_metrics the stored row of every key saved holds the
\* values just saved.
C17_Upsert ==
  /\ last.op = "ticker" =>
       \A r \in TickersOf(last.ticker) : r.name = last.name
  /\ last.op = "daily" =>
       \A row \in FinalRows(last.rows) :
         \A r \in MetricsOf(last.ticker, row.date) : r.close = row.close

(* ---------------- claims on the detectors after process_data ------------ *)
\* the output rows on which the 50-row window has not dropped a close yet
EarlyRows == 1..Min(SMA50Window, Len(df))

\* C18: on each of the first 50 rows of the output of process_data sma_50
\* equals sma_200, and neither detector, run on that output, dates an event
\* at one of these rows.
C18_NoEarlyCross ==
  /\ Returned => \A i \in EarlyRows : Valid(i) /\ Level(i)
  /\ (Returned /\ GoldenDone) =>
       \A i \in EarlyRows : df[i].date \notin Range(golden)
  /\ (Returned /\ DeathDone) =>
       \A i \in EarlyRows : df[i].date \notin Range(death)

\* C18 witness: both detectors have run on an output of more than 50 rows,
\* and an event is dated at index 50, the first row after the early ones
C18_Witness ==
  /\ Returned /\ DeathDone
  /\ Len(df) > SMA50Window
  /\ df[SMA50Window + 1].date \in Range(golden) \cup Range(death)

====
